---------------------------- MODULE Spec2Model ----------------------------
(***************************************************************************)
(* A model of bbb-docker-wrapper (src/src/main.rs): a setuid-root launcher  *)
(* that checks its credentials, validates a mode token and a recording id,  *)
(* runs `docker run ... <mode>/capture.rb -m <id>` once as the real user    *)
(* and exits with the child's status.                                       *)
(*                                                                          *)
(* Strings are sequences of one-character strings, so that the regular      *)
(* expression, the formatting and the concatenations are computed, not      *)
(* assumed.  Two pseudo-characters stand for what the ASCII literals of     *)
(* TLA+ cannot hold: BadByte (a byte that is not valid UTF-8, possible in   *)
(* an OS argument only) and ArabicDigit (U+0663, a Unicode decimal digit    *)
(* outside [0-9]).                                                          *)
(***************************************************************************)
EXTENDS Integers, Sequences, FiniteSets, TLC

VARIABLES
    pc,            \* position of main: start, check, args, stage, id, launch, wait, exited
    cred,          \* the kernel's credentials of the process: [r, e, s]
    getresuid_rc,  \* what getresuid returned (main discards it)
    ruid, euid, suid,   \* main's locals (lines 67-69)
    argv,          \* the OS argument vector behind env::args()
    argi,          \* number of arguments the iterator `args` has yielded
    arg0,          \* main's local arg0
    script,        \* main's local script: a RecordingStage, or NoStage
    recording_id,  \* main's local recording_id
    matched,       \* the last result of validate_bbb_id
    docker_argv,   \* the arguments given to Command::new("docker")
    spawns,        \* number of attempts to start the child
    child,         \* none, running, exited, signaled, failed (could not start)
    child_code,    \* the child's exit code once child = "exited"
    stderr,        \* the diagnostics written, in order
    exit_status    \* the process's exit status once pc = "exited"

vars == <<pc, cred, getresuid_rc, ruid, euid, suid, argv, argi, arg0, script,
          recording_id, matched, docker_argv, spawns, child, child_code,
          stderr, exit_status>>

----------------------------------------------------------------------------
(* Bounds of the model *)

MaxUid == 2
LargeUid == 65534
MaxArgc == 4
MaxDigits == 2
MaxCode == 2

(* Program constants *)

HexLen == 40
PanicExitCode == 101
ExitModulus == 256

----------------------------------------------------------------------------
(* String literals of the source.  The arguments of docker that are literals  *)
(* of the source are written as they are; every string the program reads,    *)
(* matches or builds is a sequence of characters.                            *)

BadByte == "<FF>"
ArabicDigit == "<U+0663>"

ProcessTok == <<"p", "r", "o", "c", "e", "s", "s">>
PublishTok == <<"p", "u", "b", "l", "i", "s", "h">>
DefaultArg0 == <<"b", "b", "b", "-", "p", "l", "a", "y", "b", "a", "c", "k", "-", "c", "a", "p", "t", "u", "r", "e", "-", "w", "r", "a", "p", "p", "e", "r">>
CaptureSuffix == <<"-", "c", "a", "p", "t", "u", "r", "e">>
CaptureScript == <<"/", "c", "a", "p", "t", "u", "r", "e", ".", "r", "b">>
DockerRun == "run"
DockerRm == "--rm"
DockerUser == "--user"
DockerMount == "--mount"
MountData == "type=bind,src=/var/bigbluebutton,dst=/var/bigbluebutton"
MountLog == "type=bind,src=/var/log/bigbluebutton,dst=/var/log/bigbluebutton"
DockerImage == "bbb-playback-capture:latest"
DashM == "-m"

----------------------------------------------------------------------------
(* enum RecordingStage and its Display *)

PROCESS == "PROCESS"
PUBLISH == "PUBLISH"
NoStage == "NoStage"
RecordingStage == {PROCESS, PUBLISH}

fmt(stage) ==
    IF stage = PROCESS THEN ProcessTok ELSE PublishTok

----------------------------------------------------------------------------
(* validate_bbb_id: the regular expression ^[a-f0-9]{40}-[0-9]+$ run as an   *)
(* automaton over the characters.  States 0..HexLen count the hex           *)
(* characters read, HexLen+1 is "after the hyphen", HexLen+2 is "after one   *)
(* or more digits" (the only accepting state), ReDead is failure.  The      *)
(* regex crate's $ (no multi-line flag) matches at the end of the text only. *)

LowerHex == {"a", "b", "c", "d", "e", "f", "0", "1", "2", "3", "4", "5", "6", "7", "8", "9"}
Digit == {"0", "1", "2", "3", "4", "5", "6", "7", "8", "9"}
ReDead == -1
ReAccept == HexLen + 2

ReStep(q, c) ==
    IF q = ReDead THEN ReDead
    ELSE IF q < HexLen THEN (IF c \in LowerHex THEN q + 1 ELSE ReDead)
    ELSE IF q = HexLen THEN (IF c = "-" THEN HexLen + 1 ELSE ReDead)
    ELSE (IF c \in Digit THEN ReAccept ELSE ReDead)

\* The run stops at the first character that cannot be matched.
RECURSIVE ReRun(_, _, _)
ReRun(s, i, q) ==
    IF q = ReDead \/ i > Len(s) THEN q ELSE ReRun(s, i + 1, ReStep(q, s[i]))

\* The same automaton without the closing anchor: it accepts as soon as the
\* accepting state is reached, whatever follows.
RECURSIVE ReRunUnanchored(_, _, _)
ReRunUnanchored(s, i, q) ==
    IF q = ReAccept \/ i > Len(s) THEN q
    ELSE ReRunUnanchored(s, i + 1, ReStep(q, s[i]))

validate_bbb_id_unanchored(id) == ReRunUnanchored(id, 1, 0) = ReAccept

validate_bbb_id(id) == ReRun(id, 1, 0) = ReAccept

----------------------------------------------------------------------------
(* format_bbb_id *)

format_bbb_id_no_suffix(stage, id) == id

format_bbb_id(stage, id) ==
    IF stage = PROCESS THEN id ELSE id \o CaptureSuffix

----------------------------------------------------------------------------
(* format!("{}", ruid): the decimal digits of an unsigned integer *)

DigitChars == <<"0", "1", "2", "3", "4", "5", "6", "7", "8", "9">>

RECURSIVE ToDecimal(_)
ToDecimal(n) ==
    IF n < 10 THEN <<DigitChars[n + 1]>>
    ELSE Append(ToDecimal(n \div 10), DigitChars[(n % 10) + 1])

----------------------------------------------------------------------------
(* Inputs: the strings the checks draw from *)

HexAlphabet == <<"0", "1", "2", "3", "4", "5", "6", "7", "8", "9", "a", "b", "c", "d", "e", "f">>

\* n characters cycling through the sixteen lowercase hex characters, with the
\* character at position pos (if any) replaced by ch.
HexRun(n, pos, ch) ==
    [i \in 1..n |-> IF i = pos THEN ch ELSE HexAlphabet[(i % 16) + 1]]

RECURSIVE SeqsUpTo(_, _)
SeqsUpTo(S, n) ==
    IF n = 0 THEN {<<>>}
    ELSE LET shorter == SeqsUpTo(S, n - 1)
         IN  shorter \cup {Append(t, c) : t \in shorter, c \in S}

Hyphen == <<"-">>
Slash == <<"/">>
DotDotSlash == <<".", ".", "/">>
SlashDotDotPasswd == <<"/", ".", ".", "/", "p", "a", "s", "s", "w", "d">>
Newline == <<"\n">>

MakeId(pre, n, pos, ch, sep, digits, suf) ==
    pre \o HexRun(n, pos, ch) \o sep \o digits \o suf

\* The strings of the source's own test of validate_bbb_id.
TestIdValid == <<"0", "a", "8", "3", "8", "7", "6", "8", "c", "2", "5", "0", "3", "4", "2", "c", "9", "0", "e", "e", "d", "0", "2", "b", "3", "4", "b", "6", "d", "6", "6", "c", "9", "7", "f", "d", "e", "0", "c", "9", "-", "1", "5", "8", "8", "8", "8", "7", "0", "0", "4", "6", "5", "2">>
TestIdShortHex == <<"8", "7", "6", "8", "c", "2", "5", "0", "3", "4", "2", "c", "9", "0", "e", "e", "d", "0", "2", "b", "3", "4", "b", "6", "d", "6", "6", "c", "9", "7", "f", "d", "-", "1", "5", "8", "8", "8", "8", "7", "0", "0", "4", "6", "5", "2">>
TestIdNoSeparator == <<"0", "a", "8", "3", "8", "7", "6", "8", "c", "2", "5", "0", "3", "4", "2", "c", "9", "0", "e", "e", "d", "0", "2", "b", "3", "4", "b", "6", "d", "6", "6", "c", "9", "7", "f", "d", "e", "0", "c", "9">>
TestIds ==
    {TestIdValid, TestIdShortHex, TestIdNoSeparator,
     TestIdValid \o SlashDotDotPasswd, DotDotSlash \o TestIdValid}

HexLens == {HexLen - 1, HexLen, HexLen + 1}
SubstChars == {"f", "A", "g", "/", ".", "-", ArabicDigit}
DigitSample == {"0", "9", "a"}

\* The strings validate_bbb_id is tried on (as a pure function).
StrPool ==
    {MakeId(pre, n, pos, ch, sep, digits, suf) :
        pre \in {<<>>, DotDotSlash},
        n \in HexLens,
        pos \in {0, 1, HexLen},
        ch \in SubstChars,
        sep \in {<<>>, Hyphen, Slash},
        digits \in SeqsUpTo(DigitSample, MaxDigits) \cup {<<ArabicDigit>>, <<"7", ArabicDigit>>},
        suf \in {<<>>, SlashDotDotPasswd, Newline, CaptureSuffix}}
    \cup TestIds

\* The recording ids main is run on: the well-formed ones of the sample, and
\* the sample's ids that deviate from a well-formed one in one place.
BaseDigits == <<"1", "5">>
GoodIds ==
    {MakeId(<<>>, HexLen, pos, "f", Hyphen, digits, <<>>) :
        pos \in {0, 1},
        digits \in SeqsUpTo({"0", "9"}, MaxDigits) \ {<<>>}}
BadIds ==
    {MakeId(<<>>, n, 0, "f", Hyphen, BaseDigits, <<>>) : n \in HexLens \ {HexLen}}
    \cup {MakeId(<<>>, HexLen, pos, ch, Hyphen, BaseDigits, <<>>) :
            pos \in {1, HexLen}, ch \in {"A", "g", "/", BadByte}}
    \cup {MakeId(<<>>, HexLen, 0, "f", sep, BaseDigits, <<>>) : sep \in {<<>>, Slash}}
    \cup {MakeId(<<>>, HexLen, 0, "f", Hyphen, digits, <<>>) :
            digits \in {<<>>, <<"a">>, <<"1", BadByte>>, <<ArabicDigit>>}}
    \cup {MakeId(DotDotSlash, HexLen, 0, "f", Hyphen, BaseDigits, <<>>)}
    \cup {MakeId(<<>>, HexLen, 0, "f", Hyphen, BaseDigits, suf) :
            suf \in {SlashDotDotPasswd, Newline, CaptureSuffix}}
    \cup {<<>>, ProcessTok}
IdPool == GoodIds \cup BadIds \cup TestIds

Arg0Pool == {<<"w", "r", "a", "p", "p", "e", "r">>, <<"w", BadByte>>}
StagePool ==
    {ProcessTok, PublishTok, <<>>,
     <<"P", "r", "o", "c", "e", "s", "s">>,
     <<"p", "r", "o", "c", "e", "s">>,
     <<"p", "u", "b", "l", "i", "s", "h", "x">>,
     <<"p", "r", BadByte>>}
ExtraPool == {<<"e", "x", "t", "r", "a">>}

\* Position 1 is the program name, 2 the mode token, 3 the recording id.
PoolAt(i) ==
    IF i = 1 THEN Arg0Pool
    ELSE IF i = 2 THEN StagePool
    ELSE IF i = 3 THEN IdPool
    ELSE ExtraPool

RECURSIVE ArgvsOfLen(_)
ArgvsOfLen(n) ==
    IF n = 0 THEN {<<>>}
    ELSE {Append(a, x) : a \in ArgvsOfLen(n - 1), x \in PoolAt(n)}

Argvs == UNION {ArgvsOfLen(n) : n \in 0..MaxArgc}

UidSample == (0..MaxUid) \cup {LargeUid}
ChildCodes == (0..MaxCode) \cup {PanicExitCode, ExitModulus - 1}

----------------------------------------------------------------------------
(* The ways main ends *)

\* std::process::exit(code): the status a parent sees is the low eight bits.
exit(code) ==
    /\ pc' = "exited"
    /\ exit_status' = code % ExitModulus

\* eprintln!(msg) followed by an exit with another status.
DieStatusTwo(msg) ==
    /\ stderr' = Append(stderr, msg)
    /\ exit(2)

\* eprintln!(msg); exit(1)
Die(msg) ==
    /\ stderr' = Append(stderr, msg)
    /\ exit(1)

\* fn usage(arg0) -> !
usage ==
    Die("usage")

\* A panic of the main thread: the message goes to stderr and the runtime
\* ends the process with status 101.
Panic ==
    /\ stderr' = Append(stderr, "panic")
    /\ pc' = "exited"
    /\ exit_status' = PanicExitCode

\* std::env::Args::next(): None at the end, a panic on an argument that is
\* not valid Unicode, Some(String) otherwise.
IsUnicode(a) == \A i \in 1..Len(a) : a[i] # BadByte

ArgsNext(v, i) ==
    IF i >= Len(v) THEN "None"
    ELSE IF ~IsUnicode(v[i + 1]) THEN "Panic"
    ELSE "Some"

----------------------------------------------------------------------------
(* main *)

InitUid == 0

Init ==
    /\ pc = "start"
    /\ cred = [r |-> 0, e |-> 0, s |-> 0]
    /\ getresuid_rc = 0
    /\ ruid = InitUid
    /\ euid = InitUid
    /\ suid = InitUid
    /\ argv = <<>>
    /\ argi = 0
    /\ arg0 = <<>>
    /\ script = NoStage
    /\ recording_id = <<>>
    /\ matched = FALSE
    /\ docker_argv = <<>>
    /\ spawns = 0
    /\ child = "none"
    /\ child_code = 0
    /\ stderr = <<>>
    /\ exit_status = -1

\* Lines 67-73: the locals start at 0 and getresuid fills them in.  The
\* credentials are the kernel's; a call that fails (rc = -1) writes nothing.
GetResUid ==
    /\ pc = "start"
    /\ \E r \in UidSample, e \in UidSample, s \in 0..MaxUid, rc \in {0, -1} :
          /\ cred' = [r |-> r, e |-> e, s |-> s]
          /\ getresuid_rc' = rc
          /\ IF rc = 0
             THEN ruid' = r /\ euid' = e /\ suid' = s
             ELSE UNCHANGED <<ruid, euid, suid>>
    /\ pc' = "check"
    /\ UNCHANGED <<argv, argi, arg0, script, recording_id, matched,
                   docker_argv, spawns, child, child_code, stderr, exit_status>>

\* CheckPrivilege without the exit after the first diagnostic.
CheckPrivilegeNoExit ==
    /\ pc = "check"
    /\ IF ruid = euid
       THEN Die("realuid")
       ELSE /\ pc' = "args"
            /\ stderr' = IF euid # 0 THEN Append(stderr, "setuid") ELSE stderr
            /\ UNCHANGED exit_status
    /\ UNCHANGED <<cred, getresuid_rc, ruid, euid, suid, argv, argi, arg0,
                   script, recording_id, matched, docker_argv, spawns, child,
                   child_code>>

\* CheckPrivilege without the second check.
CheckPrivilegeEuidOnly ==
    /\ pc = "check"
    /\ IF euid # 0
       THEN Die("setuid")
       ELSE pc' = "args" /\ UNCHANGED <<stderr, exit_status>>
    /\ UNCHANGED <<cred, getresuid_rc, ruid, euid, suid, argv, argi, arg0,
                   script, recording_id, matched, docker_argv, spawns, child,
                   child_code>>

\* Lines 75-82.
CheckPrivilege ==
    /\ pc = "check"
    /\ IF euid # 0
       THEN Die("setuid")
       ELSE IF ruid = euid
       THEN Die("realuid")
       ELSE pc' = "args" /\ UNCHANGED <<stderr, exit_status>>
    /\ UNCHANGED <<cred, getresuid_rc, ruid, euid, suid, argv, argi, arg0,
                   script, recording_id, matched, docker_argv, spawns, child,
                   child_code>>

\* Lines 85-89: env::args() and the program name.
ReadArgs ==
    /\ pc = "args"
    /\ \E a \in Argvs :
          /\ argv' = a
          /\ LET got == ArgsNext(a, 0)
             IN  /\ argi' = IF got = "None" THEN 0 ELSE 1
                 /\ IF got = "Panic"
                    THEN Panic /\ UNCHANGED arg0
                    ELSE /\ arg0' = IF got = "None" THEN DefaultArg0 ELSE a[1]
                         /\ pc' = "stage"
                         /\ UNCHANGED <<stderr, exit_status>>
    /\ UNCHANGED <<cred, getresuid_rc, ruid, euid, suid, script, recording_id,
                   matched, docker_argv, spawns, child, child_code>>

\* Lines 91-98: the mode token.
ParseStage ==
    /\ pc = "stage"
    /\ LET got == ArgsNext(argv, argi)
       IN  /\ argi' = IF got = "None" THEN argi ELSE argi + 1
           /\ IF got = "None" THEN usage /\ UNCHANGED script
              ELSE IF got = "Panic" THEN Panic /\ UNCHANGED script
              ELSE IF argv[argi + 1] = ProcessTok
              THEN script' = PROCESS /\ pc' = "id" /\ UNCHANGED <<stderr, exit_status>>
              ELSE IF argv[argi + 1] = PublishTok
              THEN script' = PUBLISH /\ pc' = "id" /\ UNCHANGED <<stderr, exit_status>>
              ELSE Die("stage") /\ UNCHANGED script
    /\ UNCHANGED <<cred, getresuid_rc, ruid, euid, suid, argv, arg0,
                   recording_id, matched, docker_argv, spawns, child, child_code>>

\* Lines 100-104: the recording id.
ParseId ==
    /\ pc = "id"
    /\ LET got == ArgsNext(argv, argi)
       IN  /\ argi' = IF got = "None" THEN argi ELSE argi + 1
           /\ IF got = "None" THEN usage /\ UNCHANGED <<recording_id, matched>>
              ELSE IF got = "Panic" THEN Panic /\ UNCHANGED <<recording_id, matched>>
              ELSE /\ recording_id' = argv[argi + 1]
                   /\ matched' = validate_bbb_id(argv[argi + 1])
                   /\ IF matched'
                      THEN pc' = "launch" /\ UNCHANGED <<stderr, exit_status>>
                      ELSE Die("format")
    /\ UNCHANGED <<cred, getresuid_rc, ruid, euid, suid, argv, arg0, script,
                   docker_argv, spawns, child, child_code>>

\* The argument list with the effective uid after --user.
DockerArgsEuid ==
    <<DockerRun, DockerRm, DockerUser, ToDecimal(euid),
      DockerMount, MountData, DockerMount, MountLog, DockerImage,
      fmt(script) \o CaptureScript, DashM, format_bbb_id(script, recording_id)>>

\* Lines 107-123: the arguments of Command::new("docker").
DockerArgs ==
    <<DockerRun, DockerRm, DockerUser, ToDecimal(ruid),
      DockerMount, MountData, DockerMount, MountLog, DockerImage,
      fmt(script) \o CaptureScript, DashM, format_bbb_id(script, recording_id)>>

\* Lines 107-128, first half of Command::status(): the child is started, or
\* the platform cannot start it.
Launch ==
    /\ pc = "launch"
    /\ docker_argv' = DockerArgs
    /\ spawns' = spawns + 1
    /\ \E started \in BOOLEAN : child' = IF started THEN "running" ELSE "failed"
    /\ pc' = "wait"
    /\ UNCHANGED <<cred, getresuid_rc, ruid, euid, suid, argv, argi, arg0, script,
                   recording_id, matched, child_code, stderr, exit_status>>

\* The child ends by itself with an exit code.
ChildExits ==
    /\ child = "running"
    /\ \E c \in ChildCodes : child_code' = c
    /\ child' = "exited"
    /\ UNCHANGED <<pc, cred, getresuid_rc, ruid, euid, suid, argv, argi, arg0,
                   script, recording_id, matched, docker_argv, spawns, stderr,
                   exit_status>>

\* The child is ended by a signal: it has no exit code.
ChildKilled ==
    /\ child = "running"
    /\ child' = "signaled"
    /\ UNCHANGED <<pc, cred, getresuid_rc, ruid, euid, suid, argv, argi, arg0,
                   script, recording_id, matched, docker_argv, spawns,
                   child_code, stderr, exit_status>>

\* ExitStatus::code() and ExitStatus::success()
None == -1
StatusCode == IF child = "exited" THEN child_code ELSE None
StatusSuccess == StatusCode = 0

\* status.code().unwrap_or(1) with the default 0.
ExitCodeOfDefaultZero == IF StatusCode = None THEN 0 ELSE StatusCode

\* status.code().unwrap_or(1)
ExitCodeOf == IF StatusCode = None THEN 1 ELSE StatusCode

\* Report without the wait: the parent goes on as soon as the child is
\* started.
ReportNoWait ==
    /\ pc = "wait"
    /\ child # "none"
    /\ IF child = "failed"
       THEN Die("start")
       ELSE /\ stderr' = Append(stderr, IF StatusCode = None THEN "signal" ELSE "code")
            /\ IF ~StatusSuccess THEN exit(ExitCodeOf) ELSE exit(0)
    /\ UNCHANGED <<cred, getresuid_rc, ruid, euid, suid, argv, argi, arg0, script,
                   recording_id, matched, docker_argv, spawns, child, child_code>>

\* Lines 128-144, second half of Command::status() and the match on its
\* result: status() returns once the child has ended (or could not start).
Report ==
    /\ pc = "wait"
    /\ child \in {"failed", "exited", "signaled"}
    /\ IF child = "failed"
       THEN Die("start")
       ELSE /\ stderr' = Append(stderr, IF StatusCode = None THEN "signal" ELSE "code")
            /\ IF ~StatusSuccess THEN exit(ExitCodeOf) ELSE exit(0)
    /\ UNCHANGED <<cred, getresuid_rc, ruid, euid, suid, argv, argi, arg0, script,
                   recording_id, matched, docker_argv, spawns, child, child_code>>

ParentStep ==
    \/ GetResUid
    \/ CheckPrivilege
    \/ ReadArgs
    \/ ParseStage
    \/ ParseId
    \/ Launch
    \/ Report

Next ==
    \/ ParentStep
    \/ ChildExits
    \/ ChildKilled

Spec == Init /\ [][Next]_vars

\* The operating system keeps running the parent, so status() returns and
\* main goes on once the child has ended; nothing makes the child end.
FairSpec == Init /\ [][Next]_vars /\ WF_vars(Report)

----------------------------------------------------------------------------
(* validate_bbb_id as a pure function: the input is drawn, the function is  *)
(* applied.                                                                 *)

ValidateInit ==
    /\ pc = "v_input"
    /\ recording_id \in StrPool
    /\ cred = [r |-> 0, e |-> 0, s |-> 0]
    /\ getresuid_rc = 0
    /\ ruid = 0
    /\ euid = 0
    /\ suid = 0
    /\ argv = <<>>
    /\ argi = 0
    /\ arg0 = <<>>
    /\ script = NoStage
    /\ matched = FALSE
    /\ docker_argv = <<>>
    /\ spawns = 0
    /\ child = "none"
    /\ child_code = 0
    /\ stderr = <<>>
    /\ exit_status = -1

ValidateCall ==
    /\ pc = "v_input"
    /\ matched' = validate_bbb_id(recording_id)
    /\ pc' = "v_done"
    /\ UNCHANGED <<cred, getresuid_rc, ruid, euid, suid, argv, argi, arg0, script,
                   recording_id, docker_argv, spawns, child, child_code, stderr,
                   exit_status>>

ValidateNext == ValidateCall

ValidateSpec == ValidateInit /\ [][ValidateNext]_vars

----------------------------------------------------------------------------
(* What the properties are stated with *)

\* The identifier grammar, stated by positions: 40 lowercase hex characters,
\* one hyphen, one or more digits, and nothing else.
IdGrammar(s) ==
    /\ Len(s) >= HexLen + 2
    /\ \A i \in 1..HexLen : s[i] \in LowerHex
    /\ s[HexLen + 1] = "-"
    /\ \A i \in (HexLen + 2)..Len(s) : s[i] \in Digit

UpperHex == {"A", "B", "C", "D", "E", "F"}
Has(s, c) == \E i \in 1..Len(s) : s[i] = c
HasDotDot(s) == \E i \in 1..(Len(s) - 1) : s[i] = "." /\ s[i + 1] = "."

\* The number of hex characters s starts with.
LeadingHex(s) ==
    IF \A i \in 1..Len(s) : s[i] \in LowerHex THEN Len(s)
    ELSE (CHOOSE i \in 1..Len(s) :
            s[i] \notin LowerHex /\ \A j \in 1..(i - 1) : s[j] \in LowerHex) - 1

\* s is a well-formed id followed by text that does not start with a digit.
HasTextAppended(s) ==
    \E k \in 1..(Len(s) - 1) : IdGrammar(SubSeq(s, 1, k)) /\ s[k + 1] \notin Digit

\* s is some text followed by a well-formed id.
HasTextPrepended(s) ==
    \E k \in 2..Len(s) : IdGrammar(SubSeq(s, k, Len(s)))

\* The number a string of decimal digits denotes.
RECURSIVE DecimalValue(_)
DecimalValue(s) ==
    IF s = <<>> THEN 0
    ELSE 10 * DecimalValue(SubSeq(s, 1, Len(s) - 1))
         + (CHOOSE d \in 0..9 : DigitChars[d + 1] = s[Len(s)])

ModeTokens == {ProcessTok, PublishTok}
Positionals == IF Len(argv) = 0 THEN 0 ELSE Len(argv) - 1
PrivilegeRejected == euid # 0 \/ ruid = euid
Launched == spawns > 0
ChildFailed == child = "signaled" \/ (child = "exited" /\ child_code # 0)
LastDiag == IF stderr = <<>> THEN "" ELSE stderr[Len(stderr)]
LauncherFailed == LastDiag \in {"setuid", "realuid", "usage", "stage", "format", "start"}

----------------------------------------------------------------------------
(* The properties *)

\* C1: whenever the credentials read have euid # 0 or ruid = euid, main ends
\* with status 1 right after the check: the only diagnostic is that of the
\* privilege check, no argument has been read and no child was started.
C1_PrivilegeGate ==
    (pc \notin {"start", "check"} /\ PrivilegeRejected) =>
        /\ pc = "exited"
        /\ exit_status = 1
        /\ stderr \in {<<"setuid">>, <<"realuid">>}
        /\ argi = 0 /\ arg0 = <<>> /\ argv = <<>>
        /\ ~Launched /\ child = "none"

C1_Witness ==
    /\ pc = "exited"
    /\ getresuid_rc = 0
    /\ euid # 0
    /\ ruid # euid
    /\ exit_status = 1

\* C2: validate_bbb_id(s) is true exactly for 40 characters of [a-f0-9], one
\* '-', one or more of [0-9] and nothing else; it is false for a string with
\* a '/', a "..", an uppercase hex letter, a hex part that is not 40 long, no
\* separator, or text after or before an otherwise valid id.
C2_ValidateIsGrammar ==
    pc = "v_done" =>
        /\ matched <=> IdGrammar(recording_id)
        /\ Has(recording_id, "/") => ~matched
        /\ HasDotDot(recording_id) => ~matched
        /\ (\E c \in UpperHex : Has(recording_id, c)) => ~matched
        /\ LeadingHex(recording_id) # HexLen => ~matched
        /\ ~Has(recording_id, "-") => ~matched
        /\ HasTextAppended(recording_id) => ~matched
        /\ HasTextPrepended(recording_id) => ~matched

C2_Witness ==
    /\ pc = "v_done"
    /\ ~matched
    /\ HasTextAppended(recording_id)
    /\ HasDotDot(recording_id)

\* C3: the child is started only if the first positional argument is exactly
\* "process" or "publish" and the second satisfies the identifier grammar;
\* and a run that got a mode token outside that set, or an identifier that
\* fails the grammar, ends with status 1 and starts no child.
C3_Claim ==
    /\ Launched =>
          /\ Len(argv) >= 3
          /\ argv[2] \in ModeTokens
          /\ IdGrammar(argv[3])
    /\ (/\ pc = "exited"
        /\ argi >= 2
        /\ \/ argv[2] \notin ModeTokens
           \/ Len(argv) >= 3 /\ ~IdGrammar(argv[3]))
       => exit_status = 1 /\ ~Launched

\* C4: after a passing privilege check a child is started only when exactly
\* two positional arguments follow the program name.
C4_Claim ==
    Launched => Positionals = 2

\* C5: whenever the child is started, the argument after --user is the
\* decimal form of the real uid read at startup, which is neither 0 nor the
\* effective uid.
C5_UserIsRealUid ==
    Launched =>
        /\ docker_argv[3] = DockerUser
        /\ DecimalValue(docker_argv[4]) = cred.r
        /\ \A i \in 1..Len(docker_argv[4]) : docker_argv[4][i] \in Digit
        /\ ruid = cred.r
        /\ cred.r # 0
        /\ cred.r # cred.e
        /\ cred.r # euid

C5_Witness ==
    /\ Launched
    /\ cred.r = LargeUid
    /\ Len(docker_argv[4]) > 1

\* C6: format_bbb_id(PROCESS, X) = X and format_bbb_id(PUBLISH, X) = X
\* followed by "-capture"; in every launch with mode token m and identifier
\* X the script path is m followed by "/capture.rb", the last two arguments
\* are "-m" and format_bbb_id(m, X), and X is a prefix of the last argument.
C6_FormatAndArgv ==
    Launched =>
        LET m == argv[2]
            X == argv[3]
            n == Len(docker_argv)
            last == docker_argv[n]
        IN  /\ format_bbb_id(PROCESS, X) = X
            /\ format_bbb_id(PUBLISH, X) = X \o CaptureSuffix
            /\ docker_argv[n - 2] = m \o CaptureScript
            /\ docker_argv[n - 1] = DashM
            /\ last = (IF m = ProcessTok THEN X ELSE X \o CaptureSuffix)
            /\ Len(last) >= Len(X)
            /\ SubSeq(last, 1, Len(X)) = X
            /\ IdGrammar(X)

C6_Witness ==
    /\ Launched
    /\ argv[2] = PublishTok
    /\ Len(docker_argv[Len(docker_argv)]) = Len(argv[3]) + Len(CaptureSuffix)

\* C7: the exit status is 0 exactly when the child was started and reported
\* success; it is the child's code c when the child exited with c # 0; it is
\* 1 when the child was ended by a signal or could not be started.
C7_ExitStatus ==
    pc = "exited" =>
        /\ exit_status = 0 <=> (child = "exited" /\ child_code = 0)
        /\ (child = "exited" /\ child_code # 0) => exit_status = child_code
        /\ child = "signaled" => exit_status = 1
        /\ child = "failed" => exit_status = 1

C7_Witness ==
    /\ pc = "exited"
    /\ child = "signaled"
    /\ exit_status = 1

\* C8 as claimed: a run in which the child started and failed never ends with
\* the status of a privilege, usage, validation or launch failure (status 1).
C8_Claim ==
    (pc = "exited" /\ ChildFailed) => exit_status # 1

\* C8 as amended: every reported privilege, usage, validation or launch
\* failure ends with status 1, and a run in which the child started and
\* failed ends with status 1 exactly when the child exited with code 1 or was
\* ended by a signal; with any other code it ends with that code, not 1.
C8_Amended ==
    pc = "exited" =>
        /\ (LauncherFailed /\ child \in {"none", "failed"}) => exit_status = 1
        /\ ChildFailed =>
              /\ exit_status = 1 <=> (child = "signaled" \/ child_code = 1)
              /\ (child = "exited" /\ child_code # 1) => exit_status = child_code

C8_Witness ==
    /\ pc = "exited"
    /\ child = "exited"
    /\ child_code = 1
    /\ exit_status = 1

\* C9: at most one attempt to start the child is ever made, and none after a
\* failed one; the parent does not exit while the child is running; and once
\* the child has ended the parent eventually exits.
C9_OneAttemptAndWait ==
    /\ [](spawns <= 1)
    /\ [][child = "failed" => spawns' = spawns]_vars
    /\ [](pc = "exited" => child # "running")
    /\ (child \in {"exited", "signaled"}) ~> (pc = "exited")

C9_Witness ==
    /\ pc = "exited"
    /\ child \in {"exited", "signaled"}
    /\ spawns = 1

\* C10: when getresuid fails and writes nothing, the three locals keep the
\* value 0, the euid check passes, the ruid = euid check rejects, and main
\* ends with status 1 with no argument read and no child started.
C10_FailedCallFailsClosed ==
    (getresuid_rc # 0 /\ pc \notin {"start", "check"}) =>
        /\ ruid = 0 /\ euid = 0 /\ suid = 0
        /\ pc = "exited"
        /\ exit_status = 1
        /\ stderr = <<"realuid">>
        /\ argi = 0 /\ arg0 = <<>> /\ argv = <<>>
        /\ ~Launched /\ child = "none"

C10_Witness ==
    /\ getresuid_rc # 0
    /\ cred.e = 0
    /\ cred.r # 0
    /\ pc = "exited"
    /\ exit_status = 1

=============================================================================
